---- MODULE Spec2Model ----
(***************************************************************************)
(* Model of the landing-page generator services of gsueyoshi/test-app:     *)
(*   src/app.py           /create_zip : prompts -> images -> ZIP -> S3     *)
(*   src/lp_generator.py  /generate_lp: prompts -> /tmp files -> ZIP       *)
(* Strings that the code transforms are sequences of one-character         *)
(* strings, so that the regular-expression substitutions, lower-casing and *)
(* slicing of convert_to_kebab_case are computed character by character.   *)
(***************************************************************************)
EXTENDS Integers, Sequences, FiniteSets, TLC

VARIABLES
    \* ---- convert_to_kebab_case called on its own (app.py:40-44) ----
    kText,      \* argument text
    kMax,       \* argument max_length
    kOut,       \* returned string
    kpc,        \* "idle" | "call" | "ret"
    \* ---- one /create_zip request of app.py ----
    apc,        \* "idle" | "load" | "generate" | "zip_check" | "zip" | "done"
    aPrompts,   \* len(data['prompts'])
    aN,         \* data['n_images']
    aFieldsOK,  \* the other required fields are present and well typed
    aUploaded,  \* filenames of request.files.getlist('uploaded_images')
    aIdx,       \* loop index over prompts, then over image_paths
    aUpIdx,     \* loop index over uploaded_images
    image_urls, \* list built by generate_images_from_prompts
    aCalls,     \* number of openai.Image.create calls made for the request
    pFailAt,    \* provider: number of the first failing call (0: none fails)
    pFailCount, \* provider: how many consecutive calls fail from there
    pKind,      \* provider: "raise" | "malformed" (response without 'data')
    aEntries,   \* entries written to the ZipFile, in order
    s3obj,      \* objects stored under the key images.zip: <<>> or <<archive>>
    aError,     \* "none" | "schema" | "provider" | "count" | "download" | "storage"
    aStatus,    \* HTTP status of the response, 0 while there is none
    aLocator,   \* 's3_url' of the response, "" while there is none
    \* ---- /generate_lp requests of lp_generator.py, one per request id ----
    lpc,        \* position of each request in generate_lp_endpoint/create_lp
    lKeyword,   \* the request text contains the keyword
    lKeys,      \* company_info, sections, image_prompts, css_config are present
    lPrompts,   \* image_prompts: sequence of [count, filename_prefix]
    lPi,        \* index of the current prompt_info in generate_images
    lI,         \* i + 1 of `for i in range(count)`
    lUrl,       \* image_url of the current generate_image call (<<>> if none)
    lPaths,     \* generated_image_paths
    lMove,      \* index of the next item of img_files in save_files
    lCalls,     \* number of openai.Image.create calls made for the request
    lProvErrs,  \* number of messages printed by generate_image's except
    lDlErrs,    \* number of messages printed by download_image_from_url's except
    lSent,      \* file sent by send_file: <<>> or <<archive>>
    lStatus,    \* HTTP status of the response, 0 while there is none
    \* ---- the file system shared by all /generate_lp requests ----
    tmp,        \* /tmp/<filename_prefix>_<i>.png -> content (<<>> if absent)
    lpdir,      \* /tmp/lp_structure: page (index.html and css), img files
    zipfile     \* /tmp/lp_structure.zip: <<>> or <<archive>>

kebabVars == <<kText, kMax, kOut, kpc>>
appVars == <<apc, aPrompts, aN, aFieldsOK, aUploaded, aIdx, aUpIdx, image_urls,
             aCalls, pFailAt, pFailCount, pKind, aEntries, s3obj, aError,
             aStatus, aLocator>>
lpVars == <<lpc, lKeyword, lKeys, lPrompts, lPi, lI, lUrl, lPaths, lMove, lCalls,
            lProvErrs, lDlErrs, lSent, lStatus, tmp, lpdir, zipfile>>
vars == <<kebabVars, appVars, lpVars>>

(***************************************************************************)
(* Bounds                                                                  *)
(***************************************************************************)
MaxTextLen == 4     \* longest text handed to convert_to_kebab_case on its own
MaxLength == 5      \* largest max_length tried

(***************************************************************************)
(* Characters                                                              *)
(***************************************************************************)
LowerChars == {"a", "b", "c", "d", "e", "f", "g", "h", "i", "j", "k", "l", "m",
               "n", "o", "p", "q", "r", "s", "t", "u", "v", "w", "x", "y", "z"}
UpperChars == {"A", "B", "C", "D", "E", "F", "G", "H", "I", "J", "K", "L", "M",
               "N", "O", "P", "Q", "R", "S", "T", "U", "V", "W", "X", "Y", "Z"}
DigitChars == {"0", "1", "2", "3", "4", "5", "6", "7", "8", "9"}
SpaceChars == {" "}

\* One representative of every class the two regular expressions tell apart:
\* lower, upper, digit, whitespace, underscore, hyphen, other punctuation.
TextChars == {"a", "Z", "5", " ", "_", "-", "!"}

Min(a, b) == IF a < b THEN a ELSE b
Max(a, b) == IF a > b THEN a ELSE b

\* re.sub(r'[^a-zA-Z0-9\s]', '', text)
RemoveSpecial(text) ==
    SelectSeq(text, LAMBDA c : c \in LowerChars \cup UpperChars \cup DigitChars \cup SpaceChars)

\* re.sub(r'[\s_]+', '-', text): every maximal run of whitespace/underscore
\* becomes one hyphen.
RECURSIVE HyphenateRuns(_)
HyphenateRuns(text) ==
    IF text = <<>> THEN <<>>
    ELSE IF Head(text) \in SpaceChars \cup {"_"}
         THEN IF Len(text) > 1 /\ text[2] \in SpaceChars \cup {"_"}
              THEN HyphenateRuns(Tail(text))
              ELSE <<"-">> \o HyphenateRuns(Tail(text))
         ELSE <<Head(text)>> \o HyphenateRuns(Tail(text))

\* str.lower() on one character
LowerChar(c) ==
    CASE c = "A" -> "a" [] c = "B" -> "b" [] c = "C" -> "c" [] c = "D" -> "d"
      [] c = "E" -> "e" [] c = "F" -> "f" [] c = "G" -> "g" [] c = "H" -> "h"
      [] c = "I" -> "i" [] c = "J" -> "j" [] c = "K" -> "k" [] c = "L" -> "l"
      [] c = "M" -> "m" [] c = "N" -> "n" [] c = "O" -> "o" [] c = "P" -> "p"
      [] c = "Q" -> "q" [] c = "R" -> "r" [] c = "S" -> "s" [] c = "T" -> "t"
      [] c = "U" -> "u" [] c = "V" -> "v" [] c = "W" -> "w" [] c = "X" -> "x"
      [] c = "Y" -> "y" [] c = "Z" -> "z" [] OTHER -> c

\* A variant of Lower that leaves the text as it is.
LowerSkipped(text) == text

\* str.lower()
Lower(text) == [i \in 1..Len(text) |-> LowerChar(text[i])]

\* text[:max_length]
SlicePrefix(text, max_length) ==
    IF max_length >= 0
    THEN SubSeq(text, 1, Min(max_length, Len(text)))
    ELSE SubSeq(text, 1, Max(Len(text) + max_length, 0))

convert_to_kebab_case(text, max_length) ==
    SlicePrefix(Lower(HyphenateRuns(RemoveSpecial(text))), max_length)

(***************************************************************************)
(* convert_to_kebab_case on arbitrary input                                *)
(***************************************************************************)
RECURSIVE SeqsUpTo(_, _)
SeqsUpTo(S, n) ==
    IF n = 0 THEN {<<>>}
    ELSE LET shorter == SeqsUpTo(S, n - 1)
         IN  shorter \cup {Append(s, c) : s \in {t \in shorter : Len(t) = n - 1}, c \in S}

KebabIdle ==
    /\ kText = <<>>
    /\ kMax = 0
    /\ kOut = <<>>
    /\ kpc = "idle"

AppIdle ==
    /\ apc = "idle"
    /\ aPrompts = 0
    /\ aN = 0
    /\ aFieldsOK = TRUE
    /\ aUploaded = <<>>
    /\ aIdx = 0
    /\ aUpIdx = 0
    /\ image_urls = <<>>
    /\ aCalls = 0
    /\ pFailAt = 0
    /\ pFailCount = 0
    /\ pKind = "raise"
    /\ aEntries = <<>>
    /\ s3obj = <<>>
    /\ aError = "none"
    /\ aStatus = 0
    /\ aLocator = ""

(***************************************************************************)
(* Bounds and initial state of the /generate_lp service                    *)
(***************************************************************************)
MaxLpPrompts == 2       \* most prompt_info items in image_prompts
MaxLpCount == 2         \* largest valid 'count' tried
LpMaxCount == 10        \* 0 <= count <= 10

Reqs == {1, 2}
Prefixes == {"a", "b"}
LpCounts == (0..MaxLpCount) \cup {LpMaxCount + 1}
\* Largest index of an image_<k>.png that a request can write.
MaxImgIndex == MaxLpPrompts * MaxLpCount

LpIdle ==
    /\ lpc = [r \in Reqs |-> "idle"]
    /\ lKeyword = [r \in Reqs |-> TRUE]
    /\ lKeys = [r \in Reqs |-> TRUE]
    /\ lPrompts = [r \in Reqs |-> <<>>]
    /\ lPi = [r \in Reqs |-> 0]
    /\ lI = [r \in Reqs |-> 0]
    /\ lUrl = [r \in Reqs |-> <<>>]
    /\ lPaths = [r \in Reqs |-> <<>>]
    /\ lMove = [r \in Reqs |-> 0]
    /\ lCalls = [r \in Reqs |-> 0]
    /\ lProvErrs = [r \in Reqs |-> 0]
    /\ lDlErrs = [r \in Reqs |-> 0]
    /\ lSent = [r \in Reqs |-> <<>>]
    /\ lStatus = [r \in Reqs |-> 0]
    /\ tmp = [f \in Prefixes \X (1..MaxLpCount) |-> <<>>]
    /\ lpdir = [exists |-> FALSE, page |-> 0, img |-> [k \in 1..MaxImgIndex |-> <<>>]]
    /\ zipfile = <<>>

InitKebab ==
    /\ AppIdle
    /\ LpIdle
    /\ kText \in SeqsUpTo(TextChars, MaxTextLen)
    /\ kMax \in 0..MaxLength
    /\ kOut = <<>>
    /\ kpc = "call"

KebabCall ==
    /\ kpc = "call"
    /\ kOut' = convert_to_kebab_case(kText, kMax)
    /\ kpc' = "ret"
    /\ UNCHANGED <<kText, kMax, appVars, lpVars>>

NextKebab == KebabCall

SpecKebab == InitKebab /\ [][NextKebab]_vars

KebabChars == LowerChars \cup DigitChars \cup {"-"}
IsNormalized(s) == \A i \in 1..Len(s) : s[i] \in KebabChars

\* C4: for every text (the empty one included) and every max_length >= 0 the
\* returned string consists of a-z, 0-9 and '-' only and is at most
\* max_length characters long.
C4_OutputCharsetAndLength ==
    kpc = "ret" => IsNormalized(kOut) /\ Len(kOut) <= kMax

\* A call returned for a text that had upper-case letters, punctuation and
\* more characters than max_length, so every step of the function acted.
C4_Witness ==
    /\ kpc = "ret"
    /\ Len(kText) > kMax
    /\ kMax > 0
    /\ \E i \in 1..Len(kText) : kText[i] \in UpperChars
    /\ \E i \in 1..Len(kText) : kText[i] \in {"!", "_", "-"}
    /\ \E i \in 1..Len(kText) : kText[i] \in SpaceChars
    /\ Len(kOut) = kMax

\* C5: a string that is already normalized (a-z, 0-9, '-') and no longer than
\* max_length is returned unchanged.
C5_IdempotentOnNormalized ==
    (kpc = "ret" /\ IsNormalized(kText) /\ Len(kText) <= kMax) => kOut = kText

(***************************************************************************)
(* app.py: POST /create_zip                                                *)
(***************************************************************************)
MaxAppPrompts == 2          \* most prompts in a request that passes the schema
MaxUploads == 1             \* most uploaded images in a request
MaxProviderFailures == 2    \* most consecutive failures of the provider

SchemaMaxPrompts == 10      \* validate=lambda p: len(p) <= 10
SchemaMaxImages == 10       \* validate=lambda n: 0 <= n <= 10
ZipMaxImages == 10          \* total_images > 10
DefaultMaxLength == 15      \* max_length=15

DigitSeq == <<"0", "1", "2", "3", "4", "5", "6", "7", "8", "9">>

\* str(n) of an f-string, n >= 0
RECURSIVE IntToStr(_)
IntToStr(n) ==
    IF n < 10 THEN <<DigitSeq[n + 1]>>
    ELSE IntToStr(n \div 10) \o <<DigitSeq[(n % 10) + 1]>>

\* f"generated_image_{idx + 1}" for idx + 1 = k
GeneratedImageText(k) ==
    <<"g", "e", "n", "e", "r", "a", "t", "e", "d", "_", "i", "m", "a", "g", "e", "_">>
        \o IntToStr(k)

PngExt == <<".", "p", "n", "g">>

\* Name, below static/img/, of the entry written for the k-th generated image.
GeneratedEntryPath(k) ==
    convert_to_kebab_case(GeneratedImageText(k), DefaultMaxLength) \o PngExt

\* Name, below static/img/, of the entry written for an uploaded image.
UploadedEntryPath(filename) == convert_to_kebab_case(filename, DefaultMaxLength)

\* Filenames a client may attach as uploaded_images.
UploadNames ==
    { <<"g", "e", "n", "e", "r", "a", "t", "e", "d", "_", "i", "m", "a", "g", "e", "_", "1", ".", "p", "n", "g">>,
      <<"L", "o", "g", "o", " ", "1", ".", "P", "N", "G">> }

\* GenerateImagesSchema().load(json_data) accepts the request.
SchemaAccepts(np, n, fieldsOK) ==
    /\ fieldsOK
    /\ np <= SchemaMaxPrompts
    /\ 0 <= n /\ n <= SchemaMaxImages

\* openai.Image.create fails on call number c.
ProviderFails(c) == pFailAt > 0 /\ pFailAt <= c /\ c < pFailAt + pFailCount

\* response['data'] of a successful call for prompt number p: n image URLs.
ProviderUrls(p, n) == [j \in 1..n |-> <<p, j>>]

InitApp ==
    /\ KebabIdle
    /\ AppIdle
    /\ LpIdle

\* A client posts a request to /create_zip; the provider's behaviour during
\* the request is fixed here.
AppRequest ==
    /\ apc = "idle"
    /\ aPrompts' \in (0..MaxAppPrompts) \cup {SchemaMaxPrompts + 1}
    /\ aN' \in 0..(SchemaMaxImages + 1)
    /\ aFieldsOK' \in BOOLEAN
    /\ aUploaded' \in SeqsUpTo(UploadNames, MaxUploads)
    /\ pFailAt' \in 0..MaxAppPrompts
    /\ pFailCount' \in 0..MaxProviderFailures
    /\ (pFailAt' = 0) = (pFailCount' = 0)
    /\ pKind' \in {"raise", "malformed"}
    /\ (pFailAt' = 0) => pKind' = "raise"
    /\ apc' = "load"
    /\ UNCHANGED <<aIdx, aUpIdx, image_urls, aCalls, aEntries, s3obj, aError,
                   aStatus, aLocator, kebabVars, lpVars>>

\* create_zip_from_prompts: schema validation, 400 on ValidationError.
AppLoad ==
    /\ apc = "load"
    /\ IF SchemaAccepts(aPrompts, aN, aFieldsOK)
       THEN /\ apc' = "generate"
            /\ UNCHANGED <<aError, aStatus>>
       ELSE /\ apc' = "done"
            /\ aError' = "schema"
            /\ aStatus' = 400
    /\ UNCHANGED <<aPrompts, aN, aFieldsOK, aUploaded, aIdx, aUpIdx, image_urls,
                   aCalls, pFailAt, pFailCount, pKind, aEntries, s3obj,
                   aLocator, kebabVars, lpVars>>

\* generate_images_from_prompts: one iteration of `for prompt in prompts`.
\* Any exception, a malformed response included, leaves the function as an
\* Exception, which create_zip_from_prompts answers with 500.
AppImageCreate ==
    /\ apc = "generate"
    /\ aIdx < aPrompts
    /\ aCalls' = aCalls + 1
    /\ IF ProviderFails(aCalls + 1)
       THEN /\ apc' = "done"
            /\ aError' = "provider"
            /\ aStatus' = 500
            /\ UNCHANGED <<aIdx, image_urls>>
       ELSE /\ image_urls' = image_urls \o ProviderUrls(aIdx + 1, aN)
            /\ aIdx' = aIdx + 1
            /\ UNCHANGED <<apc, aError, aStatus>>
    /\ UNCHANGED <<aPrompts, aN, aFieldsOK, aUploaded, aUpIdx, pFailAt,
                   pFailCount, pKind, aEntries, s3obj, aLocator, kebabVars, lpVars>>

\* generate_images_from_prompts: `return image_urls`.
AppFetchReturn ==
    /\ apc = "generate"
    /\ aIdx = aPrompts
    /\ apc' = "zip_check"
    /\ aIdx' = 0
    /\ UNCHANGED <<aPrompts, aN, aFieldsOK, aUploaded, aUpIdx, image_urls,
                   aCalls, pFailAt, pFailCount, pKind, aEntries, s3obj, aError,
                   aStatus, aLocator, kebabVars, lpVars>>

\* total_images = len(image_paths) + len(uploaded_images)
TotalImages(image_paths, uploaded_images) == Len(image_paths) + Len(uploaded_images)

\* create_zip_and_upload_to_s3: the check of the total, a ValueError that
\* create_zip_from_prompts answers with 500.
AppZipCheck ==
    /\ apc = "zip_check"
    /\ LET total_images == TotalImages(image_urls, aUploaded)
       IN  IF total_images < 0 \/ total_images > ZipMaxImages
           THEN /\ apc' = "done"
                /\ aError' = "count"
                /\ aStatus' = 500
           ELSE /\ apc' = "zip"
                /\ UNCHANGED <<aError, aStatus>>
    /\ UNCHANGED <<aPrompts, aN, aFieldsOK, aUploaded, aIdx, aUpIdx, image_urls,
                   aCalls, pFailAt, pFailCount, pKind, aEntries, s3obj,
                   aLocator, kebabVars, lpVars>>

\* create_zip_and_upload_to_s3: one iteration of the loop over image_paths,
\* download_or_read_image succeeded and the entry is written.
AppWriteGenerated ==
    /\ apc = "zip"
    /\ aIdx < Len(image_urls)
    /\ aEntries' = Append(aEntries, [path |-> GeneratedEntryPath(aIdx + 1),
                                     kind |-> "generated",
                                     data |-> image_urls[aIdx + 1]])
    /\ aIdx' = aIdx + 1
    /\ UNCHANGED <<apc, aPrompts, aN, aFieldsOK, aUploaded, aUpIdx, image_urls,
                   aCalls, pFailAt, pFailCount, pKind, s3obj, aError, aStatus,
                   aLocator, kebabVars, lpVars>>

\* create_zip_and_upload_to_s3: download_or_read_image raised; the Exception
\* leaves the function before the upload and is answered with 500.
AppDownloadFails ==
    /\ apc = "zip"
    /\ aIdx < Len(image_urls)
    /\ apc' = "done"
    /\ aError' = "download"
    /\ aStatus' = 500
    /\ UNCHANGED <<aPrompts, aN, aFieldsOK, aUploaded, aIdx, aUpIdx, image_urls,
                   aCalls, pFailAt, pFailCount, pKind, aEntries, s3obj,
                   aLocator, kebabVars, lpVars>>

\* create_zip_and_upload_to_s3: one iteration of the loop over uploaded_images.
AppWriteUploaded ==
    /\ apc = "zip"
    /\ aIdx = Len(image_urls)
    /\ aUpIdx < Len(aUploaded)
    /\ aEntries' = Append(aEntries, [path |-> UploadedEntryPath(aUploaded[aUpIdx + 1]),
                                     kind |-> "uploaded",
                                     data |-> <<0, aUpIdx + 1>>])
    /\ aUpIdx' = aUpIdx + 1
    /\ UNCHANGED <<apc, aPrompts, aN, aFieldsOK, aUploaded, aIdx, image_urls,
                   aCalls, pFailAt, pFailCount, pKind, s3obj, aError, aStatus,
                   aLocator, kebabVars, lpVars>>

\* create_zip_and_upload_to_s3: s3.upload_fileobj under the key images.zip and
\* the 200 answer with the locator.
AppS3Upload ==
    /\ apc = "zip"
    /\ aIdx = Len(image_urls)
    /\ aUpIdx = Len(aUploaded)
    /\ s3obj' = <<aEntries>>
    /\ aLocator' = "s3://bucket/images.zip"
    /\ aStatus' = 200
    /\ apc' = "done"
    /\ UNCHANGED <<aPrompts, aN, aFieldsOK, aUploaded, aIdx, aUpIdx, image_urls,
                   aCalls, pFailAt, pFailCount, pKind, aEntries, aError,
                   kebabVars, lpVars>>

\* create_zip_and_upload_to_s3: s3.upload_fileobj raised.
AppS3UploadFails ==
    /\ apc = "zip"
    /\ aIdx = Len(image_urls)
    /\ aUpIdx = Len(aUploaded)
    /\ aError' = "storage"
    /\ aStatus' = 500
    /\ apc' = "done"
    /\ UNCHANGED <<aPrompts, aN, aFieldsOK, aUploaded, aIdx, aUpIdx, image_urls,
                   aCalls, pFailAt, pFailCount, pKind, aEntries, s3obj,
                   aLocator, kebabVars, lpVars>>

NextApp ==
    \/ AppRequest
    \/ AppLoad
    \/ AppImageCreate
    \/ AppFetchReturn
    \/ AppZipCheck
    \/ AppWriteGenerated
    \/ AppDownloadFails
    \/ AppWriteUploaded
    \/ AppS3Upload
    \/ AppS3UploadFails

SpecApp == InitApp /\ [][NextApp]_vars

\* Images the request asks the provider for: number of prompts times n_images.
AppRequestedTotal == aPrompts * aN

\* C1: a request that asks for more than 10 images in total is answered
\* without any call to the image-generation provider.
C1_OverLimitMakesNoProviderCall ==
    AppRequestedTotal > 10 => aCalls = 0

\* C3: the provider fails a bounded number of times (max_retries - 1 for some
\* max_retries >= 1) and then succeeds; the fetch of a request that passes the
\* schema does not end in a provider error and returns one URL per requested
\* image, in request order.
C3_TransientFailureIsRetried ==
    /\ aError # "provider"
    /\ apc \in {"zip_check", "zip"} =>
          image_urls = [i \in 1..(aPrompts * aN) |->
                           <<((i - 1) \div aN) + 1, ((i - 1) % aN) + 1>>]

\* app.py's half of C2: a request whose provider call failed has no image
\* list, no archive entry and nothing stored.
AppFetchAllOrNothing ==
    aError = "provider" => (apc = "done" /\ aEntries = <<>> /\ s3obj = <<>> /\ aStatus = 500)

\* app.py's half of C10: after a failed download nothing is stored and the
\* request is answered with an error.
AppDownloadFailureAborts ==
    aError = "download" => (apc = "done" /\ s3obj = <<>> /\ aStatus = 500 /\ aLocator = "")

GeneratedEntries == SelectSeq(aEntries, LAMBDA e : e.kind = "generated")

\* C6: an archive built from N generated images, N in 0..10, has N entries for
\* them, and their paths differ from each other and from the paths of the
\* uploaded images.
C6_GeneratedPathsDistinct ==
    (apc = "done" /\ aStatus = 200) =>
        /\ Len(GeneratedEntries) = Len(image_urls)
        /\ \A i, j \in 1..Len(aEntries) :
              (i # j /\ aEntries[i].kind = "generated") =>
                  aEntries[i].path # aEntries[j].path

\* C7: a request rejected by validation (a missing or ill-typed field, an
\* image count out of bounds) is answered with 400, and one that failed at the
\* provider, the download or the store with 500.
C7_StatusByFailureKind ==
    aStatus # 0 =>
        /\ aError \in {"schema", "count"} => aStatus = 400
        /\ aError \in {"provider", "download", "storage"} => aStatus = 500

(***************************************************************************)
(* lp_generator.py: POST /generate_lp                                      *)
(***************************************************************************)
PromptInfos == [count : LpCounts, filename_prefix : Prefixes]

\* validate_image_count(count) does not raise.
ValidImageCount(count) == 0 <= count /\ count <= LpMaxCount

\* f"{filename_prefix}_{i + 1}.png" below /tmp, for i + 1 = k
TmpFile(prefix, k) == <<prefix, k>>

\* img_files = {generated_image_paths[i]: f'image_{i + 1}.png' ...}: a dict,
\* so a path that occurs twice keeps its first position and its last value.
\* The result is the sequence of items, <<src, k>> for dest image_<k>.png.
ImgFiles(paths) ==
    LET idx == [i \in 1..Len(paths) |-> i]
        first == SelectSeq(idx, LAMBDA i : \A j \in 1..(i - 1) : paths[j] # paths[i])
        last(src) == CHOOSE j \in 1..Len(paths) :
                        /\ paths[j] = src
                        /\ \A m \in (j + 1)..Len(paths) : paths[m] # src
    IN  [n \in 1..Len(first) |-> <<paths[first[n]], last(paths[first[n]])>>]

InitLP ==
    /\ KebabIdle
    /\ AppIdle
    /\ LpIdle

\* A client posts a request to /generate_lp with the given body.
LPRequest(r, promptLists) ==
    /\ lpc[r] = "idle"
    /\ \E kw \in BOOLEAN, keys \in BOOLEAN, prompts \in promptLists :
          /\ (~kw \/ ~keys) => prompts = <<>>
          /\ ~(~kw /\ ~keys)
          /\ lKeyword' = [lKeyword EXCEPT ![r] = kw]
          /\ lKeys' = [lKeys EXCEPT ![r] = keys]
          /\ lPrompts' = [lPrompts EXCEPT ![r] = prompts]
    /\ lpc' = [lpc EXCEPT ![r] = "parse"]
    /\ UNCHANGED <<lPi, lI, lUrl, lPaths, lMove, lCalls, lProvErrs, lDlErrs, lSent,
                   lStatus, tmp, lpdir, zipfile, kebabVars, appVars>>

\* generate_lp_endpoint: keyword check and the four data[...] lookups; 400 for
\* a request without the keyword and for a KeyError.
LPParse(r) ==
    /\ lpc[r] = "parse"
    /\ IF lKeyword[r] /\ lKeys[r]
       THEN /\ lpc' = [lpc EXCEPT ![r] = "gen"]
            /\ lPi' = [lPi EXCEPT ![r] = 1]
            /\ UNCHANGED lStatus
       ELSE /\ lpc' = [lpc EXCEPT ![r] = "done"]
            /\ lStatus' = [lStatus EXCEPT ![r] = 400]
            /\ UNCHANGED lPi
    /\ UNCHANGED <<lKeyword, lKeys, lPrompts, lI, lUrl, lPaths, lMove, lCalls,
                   lProvErrs, lDlErrs, lSent, tmp, lpdir, zipfile, kebabVars,
                   appVars>>

\* generate_images: head of `for prompt_info in prompts`: the return after the
\* last prompt, validate_image_count (its ValueError is caught by create_lp,
\* which returns "" and the endpoint answers 500), the skip of count 0.
LPNextPrompt(r) ==
    /\ lpc[r] = "gen"
    /\ IF lPi[r] > Len(lPrompts[r])
       THEN /\ lpc' = [lpc EXCEPT ![r] = "save"]
            /\ UNCHANGED <<lPi, lI, lStatus>>
       ELSE LET count == lPrompts[r][lPi[r]].count
            IN  IF ~ValidImageCount(count)
                THEN /\ lpc' = [lpc EXCEPT ![r] = "done"]
                     /\ lStatus' = [lStatus EXCEPT ![r] = 500]
                     /\ UNCHANGED <<lPi, lI>>
                ELSE IF count = 0
                THEN /\ lPi' = [lPi EXCEPT ![r] = lPi[r] + 1]
                     /\ UNCHANGED <<lpc, lI, lStatus>>
                ELSE /\ lpc' = [lpc EXCEPT ![r] = "create"]
                     /\ lI' = [lI EXCEPT ![r] = 1]
                     /\ UNCHANGED <<lPi, lStatus>>
    /\ UNCHANGED <<lKeyword, lKeys, lPrompts, lUrl, lPaths, lMove, lCalls,
                   lProvErrs, lDlErrs, lSent, tmp, lpdir, zipfile, kebabVars,
                   appVars>>

\* generate_images: the step of `for i in range(count)` after one image.
NextImage(r) ==
    IF lI[r] < lPrompts[r][lPi[r]].count
    THEN /\ lpc' = [lpc EXCEPT ![r] = "create"]
         /\ lI' = [lI EXCEPT ![r] = lI[r] + 1]
         /\ UNCHANGED lPi
    ELSE /\ lpc' = [lpc EXCEPT ![r] = "gen"]
         /\ lPi' = [lPi EXCEPT ![r] = lPi[r] + 1]
         /\ UNCHANGED lI

\* generate_image: openai.Image.create returned a URL.
LPImageCreate(r) ==
    /\ lpc[r] = "create"
    /\ lCalls' = [lCalls EXCEPT ![r] = lCalls[r] + 1]
    /\ lUrl' = [lUrl EXCEPT ![r] = <<r, lPi[r], lI[r]>>]
    /\ lpc' = [lpc EXCEPT ![r] = "download"]
    /\ UNCHANGED <<lKeyword, lKeys, lPrompts, lPi, lI, lPaths, lMove, lProvErrs,
                   lDlErrs, lSent, lStatus, tmp, lpdir, zipfile, kebabVars,
                   appVars>>

\* generate_image: openai.Image.create raised (or its response had no URL);
\* the except prints and returns None, generate_images goes on.
LPImageCreateFails(r) ==
    /\ lpc[r] = "create"
    /\ lCalls' = [lCalls EXCEPT ![r] = lCalls[r] + 1]
    /\ lProvErrs' = [lProvErrs EXCEPT ![r] = lProvErrs[r] + 1]
    /\ NextImage(r)
    /\ UNCHANGED <<lKeyword, lKeys, lPrompts, lUrl, lPaths, lMove, lDlErrs, lSent,
                   lStatus, tmp, lpdir, zipfile, kebabVars, appVars>>

\* download_image_from_url: the bytes are written to /tmp/<filename>, the
\* path is returned and appended to generated_image_paths.
LPDownload(r) ==
    /\ lpc[r] = "download"
    /\ LET f == TmpFile(lPrompts[r][lPi[r]].filename_prefix, lI[r])
       IN  /\ tmp' = [tmp EXCEPT ![f] = lUrl[r]]
           /\ lPaths' = [lPaths EXCEPT ![r] = Append(lPaths[r], f)]
    /\ lUrl' = [lUrl EXCEPT ![r] = <<>>]
    /\ NextImage(r)
    /\ UNCHANGED <<lKeyword, lKeys, lPrompts, lMove, lCalls, lProvErrs, lDlErrs,
                   lSent, lStatus, lpdir, zipfile, kebabVars, appVars>>

\* download_image_from_url: requests.get raised; the except prints and
\* returns None, generate_image returns None, generate_images goes on.
LPDownloadFails(r) ==
    /\ lpc[r] = "download"
    /\ lDlErrs' = [lDlErrs EXCEPT ![r] = lDlErrs[r] + 1]
    /\ lUrl' = [lUrl EXCEPT ![r] = <<>>]
    /\ NextImage(r)
    /\ UNCHANGED <<lKeyword, lKeys, lPrompts, lPaths, lMove, lCalls, lProvErrs,
                   lSent, lStatus, tmp, lpdir, zipfile, kebabVars, appVars>>

\* create_lp / save_files: os.makedirs(base_dir, exist_ok=True), index.html
\* and the css files are written with the request's content.
LPSavePage(r) ==
    /\ lpc[r] = "save"
    /\ lpdir' = [lpdir EXCEPT !.exists = TRUE, !.page = r]
    /\ lMove' = [lMove EXCEPT ![r] = 1]
    /\ lpc' = [lpc EXCEPT ![r] = IF ImgFiles(lPaths[r]) = <<>> THEN "zip" ELSE "move"]
    /\ UNCHANGED <<lKeyword, lKeys, lPrompts, lPi, lI, lUrl, lPaths, lCalls,
                   lProvErrs, lDlErrs, lSent, lStatus, tmp, zipfile, kebabVars,
                   appVars>>

\* save_files: one shutil.move(src, base_dir/img/dest). A src that is no
\* longer in /tmp raises; create_lp returns "" and the endpoint answers 500.
LPMove(r) ==
    /\ lpc[r] = "move"
    /\ LET item == ImgFiles(lPaths[r])[lMove[r]]
           src == item[1]
           k == item[2]
       IN  IF tmp[src] = <<>>
           THEN /\ lpc' = [lpc EXCEPT ![r] = "done"]
                /\ lStatus' = [lStatus EXCEPT ![r] = 500]
                /\ UNCHANGED <<tmp, lpdir, lMove>>
           ELSE /\ lpdir' = [lpdir EXCEPT !.img[k] = tmp[src]]
                /\ tmp' = [tmp EXCEPT ![src] = <<>>]
                /\ lMove' = [lMove EXCEPT ![r] = lMove[r] + 1]
                /\ lpc' = [lpc EXCEPT ![r] =
                              IF lMove[r] = Len(ImgFiles(lPaths[r])) THEN "zip" ELSE "move"]
                /\ UNCHANGED lStatus
    /\ UNCHANGED <<lKeyword, lKeys, lPrompts, lPi, lI, lUrl, lPaths, lCalls,
                   lProvErrs, lDlErrs, lSent, zipfile, kebabVars, appVars>>

\* create_zip: shutil.make_archive packs everything below base_dir into
\* /tmp/lp_structure.zip.
LPCreateZip(r) ==
    /\ lpc[r] = "zip"
    /\ zipfile' = <<[page |-> lpdir.page, img |-> lpdir.img]>>
    /\ lpc' = [lpc EXCEPT ![r] = "send"]
    /\ UNCHANGED <<lKeyword, lKeys, lPrompts, lPi, lI, lUrl, lPaths, lMove, lCalls,
                   lProvErrs, lDlErrs, lSent, lStatus, tmp, lpdir, kebabVars,
                   appVars>>

\* generate_lp_endpoint: send_file(zip_file_path) answers with the file that
\* is at that path now.
LPSend(r) ==
    /\ lpc[r] = "send"
    /\ lSent' = [lSent EXCEPT ![r] = zipfile]
    /\ lStatus' = [lStatus EXCEPT ![r] = 200]
    /\ lpc' = [lpc EXCEPT ![r] = "done"]
    /\ UNCHANGED <<lKeyword, lKeys, lPrompts, lPi, lI, lUrl, lPaths, lMove, lCalls,
                   lProvErrs, lDlErrs, tmp, lpdir, zipfile, kebabVars, appVars>>

\* The handler has returned: its locals and the response are gone, the files
\* it wrote stay.
LPReturn(r) ==
    /\ lpc[r] = "done"
    /\ lpc' = [lpc EXCEPT ![r] = "closed"]
    /\ lKeyword' = [lKeyword EXCEPT ![r] = TRUE]
    /\ lKeys' = [lKeys EXCEPT ![r] = TRUE]
    /\ lPrompts' = [lPrompts EXCEPT ![r] = <<>>]
    /\ lPi' = [lPi EXCEPT ![r] = 0]
    /\ lI' = [lI EXCEPT ![r] = 0]
    /\ lUrl' = [lUrl EXCEPT ![r] = <<>>]
    /\ lPaths' = [lPaths EXCEPT ![r] = <<>>]
    /\ lMove' = [lMove EXCEPT ![r] = 0]
    /\ lCalls' = [lCalls EXCEPT ![r] = 0]
    /\ lProvErrs' = [lProvErrs EXCEPT ![r] = 0]
    /\ lDlErrs' = [lDlErrs EXCEPT ![r] = 0]
    /\ lSent' = [lSent EXCEPT ![r] = <<>>]
    /\ lStatus' = [lStatus EXCEPT ![r] = 0]
    /\ UNCHANGED <<tmp, lpdir, zipfile, kebabVars, appVars>>

LPStep(r) ==
    \/ LPParse(r)
    \/ LPNextPrompt(r)
    \/ LPImageCreate(r)
    \/ LPImageCreateFails(r)
    \/ LPDownload(r)
    \/ LPDownloadFails(r)
    \/ LPSavePage(r)
    \/ LPMove(r)
    \/ LPCreateZip(r)
    \/ LPSend(r)
    \/ LPReturn(r)

\* Requests served one after the other, numbered in the order of arrival: a
\* request arrives when the handler of the one before it has returned.
LPRequestSeq(r) ==
    /\ \A q \in Reqs : q < r => lpc[q] = "closed"
    /\ LPRequest(r, SeqsUpTo(PromptInfos, MaxLpPrompts))

NextLPSeq == \E r \in Reqs : LPRequestSeq(r) \/ LPStep(r)

SpecLPSeq == InitLP /\ [][NextLPSeq]_vars

\* Requests served concurrently (a threaded server), numbered in the order of
\* arrival: a request may arrive while the one before it is being processed.
MaxConcPrompts == 1     \* most prompt_info items of a concurrent request

LPRequestConc(r) ==
    /\ \A q \in Reqs : q < r => lpc[q] # "idle"
    /\ LPRequest(r, SeqsUpTo(PromptInfos, MaxConcPrompts))

NextLPConc == \E r \in Reqs : LPRequestConc(r) \/ LPStep(r)

SpecLPConc == InitLP /\ [][NextLPConc]_vars

(***************************************************************************)
(* Claims about /generate_lp                                               *)
(***************************************************************************)
\* The archive holds nothing but what request r produced: its page and
\* images that carry r's own URLs.
OnlyOwnContent(sent, r) ==
    /\ Len(sent) = 1
    /\ sent[1].page = r
    /\ \A k \in 1..MaxImgIndex : sent[1].img[k] # <<>> => sent[1].img[k][1] = r

\* C2: the fetch is all-or-nothing: generate_images hands a list back to
\* create_lp only if no provider call of the request failed.
C2_FetchAllOrNothing ==
    \A r \in Reqs : lpc[r] = "save" => lProvErrs[r] = 0

\* C8: with requests served one after the other, the archive returned for a
\* request holds only images generated for that request, none left over from
\* an earlier one.
C8_NoLeftoverFromEarlierRequest ==
    \A r \in Reqs : lStatus[r] = 200 => OnlyOwnContent(lSent[r], r)

\* Request q is between its arrival and its answer.
InFlight(q) == lpc[q] \notin {"idle", "done", "closed"}

\* C9: a request answered while another one is being processed is sent an
\* archive with its own page and images only.
C9_ConcurrentRequestsIsolated ==
    \A r \in Reqs :
        (lStatus[r] = 200 /\ \E q \in Reqs \ {r} : InFlight(q)) =>
            OnlyOwnContent(lSent[r], r)

\* C10: no archive is delivered for a request one of whose image downloads
\* failed.
C10_DownloadFailureAborts ==
    \A r \in Reqs : lDlErrs[r] > 0 => lStatus[r] # 200

====
